---- MODULE Spec2Model ----
(***************************************************************************)
(* Readability analysis and live annotation engine of sentence-scratcher.  *)
(* src/src/TiptapEditor.jsx holds two variants of the editor component     *)
(* (lines 1-400 and lines 402-815); `variant` selects which one runs.      *)
(* Text is a sequence of one-character strings, offsets are zero-based as  *)
(* in the source, grades are integers in tenths (the source rounds every   *)
(* grade to one decimal before it is compared).                            *)
(***************************************************************************)
EXTENDS Integers, Sequences, FiniteSets, TLC

VARIABLES
  variant,               \* 1: lines 1-400, 2: lines 402-815
  cWords, cGrade, cTarget, cColor, cTip,   \* one call of classify / tooltipMessage
  fnText, fnOut,         \* one call of the readabilityUtils functions: text, results
  doc,                   \* the editor's document, as its token sequence
  decos,                 \* the plugin state: the annotation set
  targetGrade, showHardWords, easySet,     \* React props / state of TiptapEditor
  CURRENT_TARGET_GRADE, CURRENT_SHOW_HARD, CURRENT_EASY_SET,  \* module scope, variant 1
  optTargetGrade, optShowHard, optEasySet, \* values closed over by configure(), variant 2
  changed,               \* dependencies changed since the last effect pass
  mounted,               \* number of runs of the mount effects
  strictMode,            \* TRUE in a development build: React.StrictMode replays effects
  fetches,               \* fetches in flight
  fetchIssued,           \* fetches issued so far
  lastFetch,             \* outcome of the last resolved fetch, easy set before it
  listeners,             \* handlers registered on editor "update"
  nextHandler,           \* identity of the next handler function
  timers,                \* pending timeouts
  stats,                 \* displayed statistics
  lastTr                 \* kind of the last transaction applied by the plugin

vars == << variant, cWords, cGrade, cTarget, cColor, cTip, fnText, fnOut, doc, decos,
           targetGrade, showHardWords, easySet,
           CURRENT_TARGET_GRADE, CURRENT_SHOW_HARD, CURRENT_EASY_SET,
           optTargetGrade, optShowHard, optEasySet, changed, mounted, strictMode,
           fetches, fetchIssued, lastFetch, listeners,
           nextHandler, timers, stats, lastTr >>

(***************************************************************************)
(* Bounds of the model.                                                    *)
(***************************************************************************)
MaxWords == 30          \* word counts handed to classify: 0..MaxWords
MaxGrade10 == 500       \* grades handed to classify, in tenths, up to 50.0
MaxNegGrade10 == 40     \* ... and down to -4.0
MaxPieces == 3          \* pieces a generated block text is made of
MaxSentenceWords == 21  \* words of a generated long sentence: 18..MaxSentenceWords
MaxChars == 5           \* characters of a text handed to the readabilityUtils functions

(***************************************************************************)
(* Characters.                                                             *)
(***************************************************************************)
UpperCase == <<"A","B","C","D","E","F","G","H","I","J","K","L","M",
               "N","O","P","Q","R","S","T","U","V","W","X","Y","Z">>
LowerCase == <<"a","b","c","d","e","f","g","h","i","j","k","l","m",
               "n","o","p","q","r","s","t","u","v","w","x","y","z">>
Digits == {"0","1","2","3","4","5","6","7","8","9"}
UpperSet == {UpperCase[i] : i \in 1..26}
LowerSet == {LowerCase[i] : i \in 1..26}
WhiteSpace == {" ", "\n"}
\* U+2026, the horizontal ellipsis, is one character of the text
Ellipsis == "U+2026"
Terminators == {".", "!", "?", Ellipsis}
VowelLike == {"a","e","i","o","u","y"}

\* \w of the regular expressions, and [\w'-] of wordRegex
WordChars == UpperSet \cup LowerSet \cup Digits \cup {"_"}
TokenChars == WordChars \cup {"'", "-"}
LowerOf == [c \in UpperSet |-> LowerCase[CHOOSE i \in 1..26 : UpperCase[i] = c]]
UpperOf == [c \in LowerSet |-> UpperCase[CHOOSE i \in 1..26 : LowerCase[i] = c]]

IsSpace(c) == c \in WhiteSpace
IsTerminator(c) == c \in Terminators
IsWordChar(c) == c \in WordChars
IsTokenChar(c) == c \in TokenChars

ToLowerChar(c) == IF c \in UpperSet THEN LowerOf[c] ELSE c
ToUpperChar(c) == IF c \in LowerSet THEN UpperOf[c] ELSE c
toLowerCase(w) == [i \in 1..Len(w) |-> ToLowerChar(w[i])]
toUpperCase(w) == [i \in 1..Len(w) |-> ToUpperChar(w[i])]

\* String.prototype.slice(a, b) for 0 <= a <= b
Slice(t, a, b) == SubSeq(t, a + 1, b)

RECURSIVE SumSeq(_)
SumSeq(q) == IF q = <<>> THEN 0 ELSE Head(q) + SumSeq(Tail(q))

RECURSIVE Flatten(_)
Flatten(q) == IF q = <<>> THEN <<>> ELSE Head(q) \o Flatten(Tail(q))

\* String.prototype.trim
RECURSIVE TrimLeft(_)
TrimLeft(t) == IF t # <<>> /\ IsSpace(Head(t)) THEN TrimLeft(Tail(t)) ELSE t
RECURSIVE TrimRight(_)
TrimRight(t) ==
  IF t # <<>> /\ IsSpace(t[Len(t)]) THEN TrimRight(SubSeq(t, 1, Len(t) - 1)) ELSE t
trim(t) == TrimRight(TrimLeft(t))

\* String.prototype.indexOf(s, fromIndex): first start >= fromIndex, or -1
indexOf(text, s, fromIndex) ==
  LET fits(i) == IF s = <<>> THEN TRUE
                 ELSE text[i+1] = s[1] /\ Slice(text, i, i + Len(s)) = s
      cands == {i \in fromIndex..(Len(text) - Len(s)) : fits(i)}
  IN IF cands = {} THEN -1 ELSE CHOOSE i \in cands : \A j \in cands : i <= j

\* smallest offset j >= i at which text[j] satisfies P, Len(text) when there is none
FirstFrom(text, i, P(_)) ==
  LET hits == {j \in i..(Len(text) - 1) : P(text[j+1])}
  IN IF hits = {} THEN Len(text) ELSE CHOOSE j \in hits : \A k \in hits : j <= k

NotSpace(c) == ~IsSpace(c)

\* String.prototype.split(/\s+/): the pieces between runs of white space
RECURSIVE splitWhitespace(_)
splitWhitespace(t) ==
  LET a == FirstFrom(t, 0, IsSpace)
      b == FirstFrom(t, a, NotSpace)
  IN IF a = Len(t) THEN <<t>>
     ELSE <<Slice(t, 0, a)>> \o splitWhitespace(Slice(t, b, Len(t)))

NonEmpty(w) == w # <<>>

(***************************************************************************)
(* readabilityUtils.js                                                     *)
(***************************************************************************)
countWords(text) == Len(SelectSeq(splitWhitespace(trim(text)), NonEmpty))

\* the matches of /[aeiouy]{1,2}/g: one or two vowels at a time
RECURSIVE VowelMatches(_)
VowelMatches(w) ==
  IF w = <<>> THEN 0
  ELSE IF Head(w) \notin VowelLike THEN VowelMatches(Tail(w))
  ELSE IF Len(w) >= 2 /\ w[2] \in VowelLike THEN 1 + VowelMatches(Tail(Tail(w)))
  ELSE 1 + VowelMatches(Tail(w))

NotSuffixGuard(c) == c \notin {"l","a","e","i","o","u","y"}

\* word.replace(/(?:[^laeiouy]es|ed|[^laeiouy]e)$/, '')
stripSuffix(w) ==
  LET n == Len(w) IN
  IF n >= 3 /\ NotSuffixGuard(w[n-2]) /\ w[n-1] = "e" /\ w[n] = "s"
  THEN SubSeq(w, 1, n - 3)
  ELSE IF n >= 2 /\ w[n-1] = "e" /\ w[n] = "d" THEN SubSeq(w, 1, n - 2)
  ELSE IF n >= 2 /\ NotSuffixGuard(w[n-1]) /\ w[n] = "e" THEN SubSeq(w, 1, n - 2)
  ELSE w

\* word.replace(/^y/, '')
stripLeadingY(w) == IF w # <<>> /\ Head(w) = "y" THEN Tail(w) ELSE w

countSyllables(word) ==
  LET w == toLowerCase(word) IN
  IF Len(w) <= 3 THEN 1
  ELSE LET m == VowelMatches(stripLeadingY(stripSuffix(w)))
       IN IF m > 0 THEN m ELSE 1

\* n / d rounded to the nearest integer, halves away from zero (toFixed)
RoundDiv(n, d) ==
  IF n >= 0 THEN (2 * n + d) \div (2 * d) ELSE 0 - ((2 * (0 - n) + d) \div (2 * d))

\* 0.39 * (words / sentences) + 11.8 * (syllables / words) - 15.59, in tenths
Grade10(words, sentences, syl) ==
  RoundDiv(39 * words * words + 1180 * syl * sentences - 1559 * words * sentences,
           10 * words * sentences)

\* wordCount = 0 makes the source divide by zero: syllableCount / 0 is Infinity, and
\* so is the grade; `finite` is FALSE then and grade is a placeholder
analyzeSentence(sentence) ==
  LET wordCount == countWords(sentence)
      parts == splitWhitespace(trim(sentence))
      syllableCount == SumSeq([i \in 1..Len(parts) |-> countSyllables(parts[i])])
  IN [wordCount |-> wordCount,
      syllableCount |-> syllableCount,
      finite |-> wordCount # 0,
      grade |-> IF wordCount = 0 THEN 0 ELSE Grade10(wordCount, 1, syllableCount)]

IsSentenceEnd(c) == c \in {".", "!", "?"}
NotSentenceEnd(c) == ~IsSentenceEnd(c)

\* text.split(/[.!?]+/): the pieces between runs of sentence-ending punctuation
RECURSIVE splitSentenceEnds(_)
splitSentenceEnds(t) ==
  LET a == FirstFrom(t, 0, IsSentenceEnd)
      b == FirstFrom(t, a, NotSentenceEnd)
  IN IF a = Len(t) THEN <<t>>
     ELSE <<Slice(t, 0, a)>> \o splitSentenceEnds(Slice(t, b, Len(t)))

HasText(s) == trim(s) # <<>>

countSentences(text) ==
  LET n == Len(SelectSeq(splitSentenceEnds(text), HasText))
  IN IF n = 0 THEN 1 ELSE n

\* 206.835 - 1.015 * (words / sentences) - 84.6 * (syllables / words), in tenths
Ease10(words, sentences, syl) ==
  RoundDiv(206835 * words * sentences - 1015 * words * words
             - 84600 * syl * sentences,
           100 * words * sentences)

\* the words, sentence count, syllables and divisor both score functions compute
scoreInputs(text) ==
  LET words == SelectSeq(splitWhitespace(trim(text)), NonEmpty)
  IN [sentences |-> countSentences(text),
      syllables |-> SumSeq([i \in 1..Len(words) |-> countSyllables(words[i])]),
      wordCount |-> IF Len(words) = 0 THEN 1 ELSE Len(words)]

calculateFleschKincaidGrade(text) ==
  LET x == scoreInputs(text) IN Grade10(x.wordCount, x.sentences, x.syllables)

calculateFleschReadingEase(text) ==
  LET x == scoreInputs(text) IN Ease10(x.wordCount, x.sentences, x.syllables)

(***************************************************************************)
(* Thresholds of TiptapEditor.jsx.                                         *)
(***************************************************************************)
ENABLE_BLUE_1 == TRUE
ENABLE_BLUE_2 == FALSE
LONG_SENTENCE_WORDS == 15
HEMI_HARD_WORDS == 20
HEMI_VERY_HARD_WORDS == 25
DELTA_HARD == 1
DELTA_VERY_HARD == 3
MIN_YELLOW_WORDS_FOR_GRADE == 14
MIN_RED_WORDS_FOR_GRADE == 18
MIN_SAMPLE_WORDS == 8
DEFAULT_HARD_SYLLABLES == 3
TargetGrades == {6, 8, 10}

\* hardSyllables with the default threshold for every target grade
hardSyllables_flat(target) == DEFAULT_HARD_SYLLABLES

\* HARD_SYLLABLES_BY_TARGET[targetGrade] ?? 3
hardSyllables(target) ==
  CASE target = 6 -> 3
    [] target = 8 -> 4
    [] target = 10 -> 5
    [] OTHER -> DEFAULT_HARD_SYLLABLES

\* grade - target, in tenths
Delta10(grade, target) == grade - 10 * target

\* classify1 with the strict comparison of the second variant
classify1_strict(words, grade, target) ==
  LET delta == grade - 10 * target IN
  IF words < MIN_SAMPLE_WORDS THEN "none"
  ELSE IF delta > 10 * DELTA_VERY_HARD /\ words >= MIN_RED_WORDS_FOR_GRADE THEN "red"
  ELSE IF delta > 10 * DELTA_HARD /\ words >= MIN_YELLOW_WORDS_FOR_GRADE THEN "yellow"
  ELSE IF ENABLE_BLUE_1 /\ words >= LONG_SENTENCE_WORDS THEN "blue"
  ELSE "none"

\* classify of the first variant
classify1(words, grade, target) ==
  LET delta == Delta10(grade, target) IN
  IF words < MIN_SAMPLE_WORDS THEN "none"
  ELSE IF delta >= 10 * DELTA_VERY_HARD /\ words >= MIN_RED_WORDS_FOR_GRADE THEN "red"
  ELSE IF delta >= 10 * DELTA_HARD /\ words >= MIN_YELLOW_WORDS_FOR_GRADE THEN "yellow"
  ELSE IF ENABLE_BLUE_1 /\ words >= LONG_SENTENCE_WORDS THEN "blue"
  ELSE "none"

\* classify2 with the word floor of the yellow grade rule left out
classify2_noFloor(words, grade, target) ==
  LET delta == grade - 10 * target IN
  IF words >= HEMI_VERY_HARD_WORDS THEN "red"
  ELSE IF words >= HEMI_HARD_WORDS THEN "yellow"
  ELSE IF delta > 10 * DELTA_VERY_HARD /\ words >= MIN_RED_WORDS_FOR_GRADE THEN "red"
  ELSE IF delta > 10 * DELTA_HARD THEN "yellow"
  ELSE "none"

\* classify2 with the grade rule tried before the length rule
classify2_deltaFirst(words, grade, target) ==
  LET delta == grade - 10 * target IN
  IF delta > 10 * DELTA_VERY_HARD /\ words >= MIN_RED_WORDS_FOR_GRADE THEN "red"
  ELSE IF words >= HEMI_VERY_HARD_WORDS THEN "red"
  ELSE IF words >= HEMI_HARD_WORDS THEN "yellow"
  ELSE IF delta > 10 * DELTA_HARD /\ words >= MIN_YELLOW_WORDS_FOR_GRADE THEN "yellow"
  ELSE "none"

\* classify of the second variant
classify2(words, grade, target) ==
  LET delta == Delta10(grade, target) IN
  IF words >= HEMI_VERY_HARD_WORDS THEN "red"
  ELSE IF words >= HEMI_HARD_WORDS THEN "yellow"
  ELSE IF delta > 10 * DELTA_VERY_HARD /\ words >= MIN_RED_WORDS_FOR_GRADE THEN "red"
  ELSE IF delta > 10 * DELTA_HARD /\ words >= MIN_YELLOW_WORDS_FOR_GRADE THEN "yellow"
  ELSE IF ENABLE_BLUE_2 /\ words >= LONG_SENTENCE_WORDS THEN "blue"
  ELSE "none"

classify(v, words, grade, target) ==
  IF v = 1 THEN classify1(words, grade, target) ELSE classify2(words, grade, target)

\* tooltipMessage of the first variant
tooltipMessage1(color) ==
  CASE color = "red" -> "Much harder than your target-simplify or split."
    [] color = "yellow" -> "A bit harder than your target-try simpler words or a split."
    [] color = "blue" -> "Long sentence-consider a split."
    [] OTHER -> ""

\* ruleFlags with the length thresholds taken as strict
ruleFlags_strictLength(wordCount, grade, target) ==
  LET delta == Delta10(grade, target) IN
  [byLengthHard   |-> wordCount > HEMI_VERY_HARD_WORDS,
   byLengthYellow |-> wordCount > HEMI_HARD_WORDS,
   byDeltaHard    |-> delta > 10 * DELTA_VERY_HARD /\ wordCount >= MIN_RED_WORDS_FOR_GRADE,
   byDeltaYellow  |-> delta > 10 * DELTA_HARD /\ wordCount >= MIN_YELLOW_WORDS_FOR_GRADE]

\* the rule flags buildDecorations of the second variant recomputes
ruleFlags(wordCount, grade, target) ==
  LET delta == Delta10(grade, target) IN
  [byLengthHard   |-> wordCount >= HEMI_VERY_HARD_WORDS,
   byLengthYellow |-> wordCount >= HEMI_HARD_WORDS,
   byDeltaHard    |-> delta > 10 * DELTA_VERY_HARD /\ wordCount >= MIN_RED_WORDS_FOR_GRADE,
   byDeltaYellow  |-> delta > 10 * DELTA_HARD /\ wordCount >= MIN_YELLOW_WORDS_FOR_GRADE]

\* tooltipMessage of the second variant
tooltipMessage2(color, f) ==
  IF color = "red" /\ f.byLengthHard /\ f.byDeltaHard
    THEN "Very hard, long and above target, split and simplify."
  ELSE IF color = "red" /\ f.byLengthHard
    THEN "Very hard, 25 or more words, split this sentence."
  ELSE IF color = "red" /\ f.byDeltaHard
    THEN "Very hard, about 3 grades over target, split and simplify."
  ELSE IF color = "yellow" /\ f.byLengthYellow /\ f.byDeltaYellow
    THEN "A bit long and above your target, consider a small rewrite."
  ELSE IF color = "yellow" /\ f.byLengthYellow
    THEN "A bit long, 20 or more words, consider a split."
  ELSE IF color = "yellow" /\ f.byDeltaYellow
    THEN "Slightly above your target, try simpler words or a split."
  ELSE IF color = "blue" THEN "Long sentence, consider a split."
  ELSE ""

\* the data-tip of a sentence annotation
sentenceTip(v, color, wordCount, grade, target) ==
  IF v = 1 THEN tooltipMessage1(color)
  ELSE tooltipMessage2(color, ruleFlags(wordCount, grade, target))

\* syllables of the second variant
syllableExceptions ==
  { <<<<"q","u","e","u","e">>, 2>>, <<<<"p","e","o","p","l","e">>, 2>>,
    <<<<"b","u","s","i","n","e","s","s">>, 2>>, <<<<"e","v","e","r","y">>, 2>>,
    <<<<"f","a","m","i","l","y">>, 3>>,
    <<<<"c","h","o","c","o","l","a","t","e">>, 3>> }

LettersAndApostrophe == LowerSet \cup {"'"}
IsLetterOrApostrophe(c) == c \in LettersAndApostrophe

\* vowels.includes(w[i]) && !vowels.includes(w[i - 1] || ""): the empty string is
\* included in every string, so a vowel at index 0 is not counted
vowelStarts(w) ==
  Cardinality({i \in 2..Len(w) : w[i] \in VowelLike /\ w[i-1] \notin VowelLike})

syllables(word) ==
  LET w == SelectSeq(toLowerCase(word), IsLetterOrApostrophe) IN
  IF w = <<>> THEN 0
  ELSE IF \E e \in syllableExceptions : e[1] = w
       THEN (CHOOSE e \in syllableExceptions : e[1] = w)[2]
  ELSE LET count == vowelStarts(w) - (IF w[Len(w)] = "e" THEN 1 ELSE 0)
       IN IF count > 1 THEN count ELSE 1

syllableEstimate(v, w) == IF v = 1 THEN countSyllables(w) ELSE syllables(w)

\* word filters
isAllCaps(w) == Len(w) > 1 /\ w = toUpperCase(w)
StartsWithCI(w, p) == Len(w) >= Len(p) /\ toLowerCase(SubSeq(w, 1, Len(p))) = p
isUrlLike(w) ==
  \/ StartsWithCI(w, <<"h","t","t","p",":","/","/">>)
  \/ StartsWithCI(w, <<"h","t","t","p","s",":","/","/">>)
  \/ StartsWithCI(w, <<"w","w","w",".">>)
isNumberLike(w) == w # <<>> /\ Head(w) \in Digits
isLikelyProperNoun(w) ==
  Len(w) >= 2 /\ w[1] \in UpperSet /\ w[2] \in LowerSet /\ ~isAllCaps(w)

\* wOrig.replace(/^'+|'+$/g, "")
IsApostrophe(c) == c = "'"
RECURSIVE DropLeading(_)
DropLeading(w) == IF w # <<>> /\ IsApostrophe(Head(w)) THEN DropLeading(Tail(w)) ELSE w
RECURSIVE DropTrailing(_)
DropTrailing(w) ==
  IF w # <<>> /\ IsApostrophe(w[Len(w)])
  THEN DropTrailing(SubSeq(w, 1, Len(w) - 1)) ELSE w
stripApostrophes(w) == DropTrailing(DropLeading(w))

NotTerminator(c) == ~IsTerminator(c)

\* text.match(/[^.!?U+2026]+[.!?U+2026]*/g) || []
RECURSIVE MatchSentences(_, _)
MatchSentences(text, i) ==
  LET start == FirstFrom(text, i, NotTerminator)
      k == FirstFrom(text, FirstFrom(text, start, IsTerminator), NotTerminator)
  IN IF start >= Len(text) THEN <<>>
     ELSE <<Slice(text, start, k)>> \o MatchSentences(text, k)
splitIntoSentences(text) == MatchSentences(text, 0)

\* \b at offset i of s
IsBoundary(s, i) ==
  LET before == i > 0 /\ IsWordChar(s[i])
      after == i < Len(s) /\ IsWordChar(s[i+1])
  IN before # after

NotTokenChar(c) == ~IsTokenChar(c)

\* the successive matches of /\b[\w'-]+\b/g in s from lastIndex i, each with its
\* index: a match starts at a boundary before a character of the class, runs over
\* the characters of the class and is cut back to the last boundary in the run
RECURSIVE MatchTokens(_, _, _)
MatchTokens(s, i, bounds) ==
  LET starts == {p \in bounds : p >= i /\ p < Len(s) /\ IsTokenChar(s[p+1])}
  IN IF starts = {} THEN <<>>
     ELSE LET p == CHOOSE x \in starts : \A y \in starts : x <= y
              e == FirstFrom(s, p, NotTokenChar)
              ends == {q \in bounds : q > p /\ q <= e}
          IN IF ends # {}
             THEN LET q == CHOOSE x \in ends : \A y \in ends : y <= x
                  IN <<[index |-> p, text |-> Slice(s, p, q)]>>
                       \o MatchTokens(s, q, bounds)
             ELSE MatchTokens(s, p + 1, bounds)
wordTokens(s) == MatchTokens(s, 0, {p \in 0..Len(s) : IsBoundary(s, p)})

(***************************************************************************)
(* The document.  A ProseMirror document is indexed by position: a node's  *)
(* opening and closing tokens, an inline leaf and a character each take    *)
(* one position.  `doc` is that token sequence; position p lies before     *)
(* doc[p + 1].                                                             *)
(***************************************************************************)
OpenTokens == {"<paragraph>", "<heading>", "<list_item>", "<bullet_list>"}
CloseToken == "</>"
LeafTokens == {"<hard_break>"}
BlockTypes == {"<paragraph>", "<list_item>", "<heading>"}
MarkupTokens == OpenTokens \cup {CloseToken} \cup LeafTokens
IsChar(t) == t \notin MarkupTokens

\* position of the closing token of the node opened at position i: the first closing
\* token after as many closings as openings
nodeEnd(d, i) ==
  LET balanced(j) ==
        Cardinality({k \in (i+1)..(j-1) : d[k+1] \in OpenTokens})
          = Cardinality({k \in (i+1)..(j-1) : d[k+1] = CloseToken})
      ends == {j \in (i+1)..(Len(d) - 1) : d[j+1] = CloseToken /\ balanced(j)}
  IN IF ends = {} THEN Len(d) ELSE CHOOSE j \in ends : \A k \in ends : j <= k

\* node.textContent: the characters of all text below the node, nothing for a leaf
textContent(d, i) == SelectSeq(SubSeq(d, i + 2, nodeEnd(d, i)), IsChar)

\* doc.textBetween(from, to): the characters between two positions
textBetween(d, from, to) == SelectSeq(SubSeq(d, from + 1, to), IsChar)

\* the settings as the plugin's getters return them
getTargetGrade == IF variant = 1 THEN CURRENT_TARGET_GRADE ELSE optTargetGrade
getShowHardWords == IF variant = 1 THEN CURRENT_SHOW_HARD ELSE optShowHard
getEasySet == IF variant = 1 THEN CURRENT_EASY_SET ELSE optEasySet

\* isFiltered with the proper-noun filter applied to the first token as well
isFiltered_anyIndex(wOrig, tokenIndex) ==
  LET w == stripApostrophes(wOrig) IN
  \/ w = <<>> \/ isUrlLike(w) \/ isNumberLike(w)
  \/ isLikelyProperNoun(wOrig)
  \/ isAllCaps(wOrig)

\* the filters of the word loop, in the order of the source
isFiltered(wOrig, tokenIndex) ==
  LET w == stripApostrophes(wOrig) IN
  \/ w = <<>> \/ isUrlLike(w) \/ isNumberLike(w)
  \/ (tokenIndex > 0 /\ isLikelyProperNoun(wOrig))
  \/ isAllCaps(wOrig)

isFlagged(v, wOrig, tokenIndex, target, easy) ==
  LET w == stripApostrophes(wOrig)
      lower == toLowerCase(w)
  IN /\ ~isFiltered(wOrig, tokenIndex)
     /\ syllableEstimate(v, w) >= hardSyllables(target)
     /\ lower \notin easy

\* the word loop of buildDecorations over one fragment s mapped at `from`; `src` (the
\* token analyzed) and `tokenIndex` are recorded with each annotation for the claims;
\* the tooltip's suggestion comes from simpleWordMap.js and is left out
wordDecos(v, s, from, target, easy) ==
  LET toks == wordTokens(s)
      one(k) ==
        IF isFlagged(v, toks[k].text, k - 1, target, easy)
        THEN << [kind |-> "word", from |-> from + toks[k].index,
                 to |-> from + toks[k].index + Len(toks[k].text),
                 color |-> "hard-word", tip |-> "Likely hard word",
                 src |-> toks[k].text, tokenIndex |-> k - 1] >>
        ELSE <<>>
  IN Flatten([k \in 1..Len(toks) |-> one(k)])

\* the sentence annotation of one fragment s mapped at `from`
sentenceDecos(v, s, from, target) ==
  LET a == analyzeSentence(s)
      color == classify(v, a.wordCount, a.grade, target)
  IN IF color # "none"
     THEN << [kind |-> "sentence", from |-> from, to |-> from + Len(s),
              color |-> color,
              tip |-> sentenceTip(v, color, a.wordCount, a.grade, target),
              src |-> s, tokenIndex |-> -1] >>
     ELSE <<>>

\* one iteration of the loop over the fragments of a block, before the annotations are
\* pushed: the trimmed fragment, the result of the forward search, whether the fragment
\* is skipped (`continue`), and searchFrom after the iteration.
\* loopStep with searchFrom left where it is on a skip
loopStep_stall(text, raw, searchFrom) ==
  LET s == trim(raw)
      startInNode == indexOf(text, s, searchFrom)
      skipped == s = <<>> \/ startInNode = -1
  IN [s |-> s, startInNode |-> startInNode, skipped |-> skipped,
      next |-> IF skipped THEN searchFrom ELSE startInNode + Len(s)]
\* loopStep with searchFrom moved one character past the fragment found
loopStep_overshoot(text, raw, searchFrom) ==
  LET s == trim(raw)
      startInNode == indexOf(text, s, searchFrom)
      skipped == s = <<>> \/ startInNode = -1
  IN [s |-> s, startInNode |-> startInNode, skipped |-> skipped,
      next |-> IF skipped THEN searchFrom + Len(raw) ELSE startInNode + Len(s) + 1]
\* one iteration of the loop, as the source has it
loopStep(text, raw, searchFrom) ==
  LET s == trim(raw)
      startInNode == indexOf(text, s, searchFrom)
      skipped == s = <<>> \/ startInNode = -1
  IN [s |-> s, startInNode |-> startInNode, skipped |-> skipped,
      next |-> IF skipped THEN searchFrom + Len(raw) ELSE startInNode + Len(s)]

\* the loop over the fragments of one block
RECURSIVE fragmentLoop(_, _, _, _, _, _, _, _)
fragmentLoop(v, text, blockFrom, parts, searchFrom, target, show, easy) ==
  IF parts = <<>> THEN <<>>
  ELSE
    LET it == loopStep(text, Head(parts), searchFrom)
        from == blockFrom + it.startInNode
    IN IF it.skipped
       THEN fragmentLoop(v, text, blockFrom, Tail(parts), it.next, target, show, easy)
       ELSE sentenceDecos(v, it.s, from, target)
            \o (IF show THEN wordDecos(v, it.s, from, target, easy) ELSE <<>>)
            \o fragmentLoop(v, text, blockFrom, Tail(parts), it.next, target, show, easy)

\* the callback of doc.descendants for the node at position pos
blockDecos(v, d, pos, target, show, easy) ==
  LET text == textContent(d, pos) IN
  IF d[pos + 1] \notin BlockTypes \/ text = <<>> THEN <<>>
  ELSE fragmentLoop(v, text, pos + 1, splitIntoSentences(text), 0, target, show, easy)

IsOpenToken(t) == t \in OpenTokens

\* doc.descendants from position i on: every node, in document order (the callback
\* never returns false, so the children of a visited node are visited as well)
RECURSIVE descendantsFrom(_, _, _, _, _, _)
descendantsFrom(v, d, i, target, show, easy) ==
  LET pos == FirstFrom(d, i, IsOpenToken) IN
  IF pos >= Len(d) THEN <<>>
  ELSE blockDecos(v, d, pos, target, show, easy)
       \o descendantsFrom(v, d, pos + 1, target, show, easy)

\* buildDecorations as a function of the document and the settings it reads
buildWith(v, d, target, show, easy) == descendantsFrom(v, d, 0, target, show, easy)

buildDecorations(d) == buildWith(variant, d, getTargetGrade, getShowHardWords, getEasySet)

(***************************************************************************)
(* The editor at rest: the values the pure-function specifications give    *)
(* to the state they do not use.                                           *)
(***************************************************************************)
NoScores ==
  [scored |-> FALSE, sentences |-> 0, divisor |-> 0, grade |-> 0, ease |-> 0,
   sentence |-> [wordCount |-> 0, syllableCount |-> 0, finite |-> FALSE, grade |-> 0],
   syllables |-> 0, estimate |-> 0]
NoTextCall == fnText = <<>> /\ fnOut = NoScores

NoClassifyCall ==
  /\ cWords = 0 /\ cGrade = 0 /\ cTarget = 6 /\ cColor = "unset" /\ cTip = "unset"
  /\ NoTextCall

NoStats == [wordCount |-> 0, sentenceCount |-> 0, grade |-> 0, ease |-> 0]
NoFetch == [outcome |-> "none", before |-> {}, payload |-> <<>>]

SettingsAtRest ==
  /\ targetGrade = 6 /\ showHardWords = TRUE /\ easySet = {}
  /\ CURRENT_TARGET_GRADE = 6 /\ CURRENT_SHOW_HARD = TRUE /\ CURRENT_EASY_SET = {}
  /\ optTargetGrade = 6 /\ optShowHard = TRUE /\ optEasySet = {}

SchedulerAtRest ==
  /\ changed = {} /\ mounted = 0 /\ strictMode = FALSE
  /\ fetches = 0 /\ fetchIssued = 0 /\ lastFetch = NoFetch
  /\ listeners = {} /\ nextHandler = 1
  /\ timers = {} /\ stats = NoStats

EditorAtRest ==
  /\ doc = <<>> /\ decos = <<>> /\ lastTr = "none"
  /\ SettingsAtRest /\ SchedulerAtRest

settingVars == << targetGrade, showHardWords, easySet,
                 CURRENT_TARGET_GRADE, CURRENT_SHOW_HARD, CURRENT_EASY_SET,
                 optTargetGrade, optShowHard, optEasySet >>
schedulerVars == << changed, mounted, strictMode, fetches, fetchIssued, lastFetch,
                   listeners, nextHandler, timers, stats >>
editorVars == << doc, decos, targetGrade, showHardWords, easySet,
                 CURRENT_TARGET_GRADE, CURRENT_SHOW_HARD, CURRENT_EASY_SET,
                 optTargetGrade, optShowHard, optEasySet, changed, mounted, strictMode,
                 fetches, fetchIssued, lastFetch, listeners,
                 nextHandler, timers, stats, lastTr >>
classifyVars == << cWords, cGrade, cTarget, cColor, cTip, fnText, fnOut >>

(***************************************************************************)
(* SpecClassify: one call of classify and of the tooltip of its result,    *)
(* for every word count, grade and target grade within the bounds.         *)
(***************************************************************************)
InitClassify ==
  /\ variant \in {1, 2}
  /\ cWords \in 0..MaxWords
  /\ cGrade \in (0 - MaxNegGrade10)..MaxGrade10
  /\ cTarget \in TargetGrades
  /\ cColor = "unset" /\ cTip = "unset"
  /\ NoTextCall
  /\ EditorAtRest

Classify ==
  /\ cColor = "unset"
  /\ cColor' = classify(variant, cWords, cGrade, cTarget)
  /\ cTip' = sentenceTip(variant, cColor', cWords, cGrade, cTarget)
  /\ UNCHANGED << variant, cWords, cGrade, cTarget, fnText, fnOut, editorVars >>

NextClassify == Classify

SpecClassify == InitClassify /\ [][NextClassify]_vars

(***************************************************************************)
(* SpecBuild: one run of buildDecorations (the plugin state's init) over   *)
(* generated documents and settings.  A block text is a concatenation of   *)
(* at most MaxPieces pieces.                                               *)
(***************************************************************************)
\* the built-in seed of easy words
MIN_EASY_WORDS == {
  <<"a">>, <<"a","b","o","u","t">>, <<"a","f","t","e","r">>, <<"a","l","l">>,
  <<"a","l","s","o">>, <<"a","n">>, <<"a","n","d">>, <<"a","n","y">>, <<"a","r","e">>,
  <<"a","s">>, <<"a","t">>, <<"b","a","c","k">>, <<"b","e">>, <<"b","e","c","a","u","s","e">>,
  <<"b","e","e","n">>, <<"b","e","f","o","r","e">>, <<"b","u","t">>, <<"b","y">>,
  <<"c","a","n">>, <<"c","o","m","e">>, <<"c","o","u","l","d">>, <<"d","a","y">>,
  <<"d","i","d">>, <<"d","o">>, <<"d","o","w","n">>, <<"e","a","c","h">>, <<"e","v","e","n">>,
  <<"e","v","e","r","y">>, <<"f","e","w">>, <<"f","i","n","d">>, <<"f","i","r","s","t">>,
  <<"f","o","r">>, <<"f","r","o","m">>, <<"g","e","t">>, <<"g","o">>, <<"g","o","o","d">>,
  <<"h","a","d">>, <<"h","a","s">>, <<"h","a","v","e">>, <<"h","e">>, <<"h","e","r">>,
  <<"h","e","r","e">>, <<"h","i","m">>, <<"h","i","s">>, <<"h","o","w">>, <<"i">>, <<"i","f">>,
  <<"i","n">>, <<"i","n","t","o">>, <<"i","s">>, <<"i","t">>, <<"j","u","s","t">>,
  <<"k","n","o","w">>, <<"l","i","k","e">>, <<"l","i","t","t","l","e">>, <<"l","o","n","g">>,
  <<"l","o","o","k">>, <<"m","a","d","e">>, <<"m","a","k","e">>, <<"m","a","n">>,
  <<"m","a","n","y">>, <<"m","a","y">>, <<"m","e">>, <<"m","e","n">>, <<"m","o","r","e">>,
  <<"m","o","s","t">>, <<"m","u","c","h">>, <<"m","u","s","t">>, <<"m","y">>, <<"n","e","w">>,
  <<"n","o">>, <<"n","o","t">>, <<"n","o","w">>, <<"o","f">>, <<"o","f","f">>, <<"o","l","d">>,
  <<"o","n">>, <<"o","n","e">>, <<"o","n","l","y">>, <<"o","r">>, <<"o","t","h","e","r">>,
  <<"o","u","r">>, <<"o","u","t">>, <<"o","v","e","r">>, <<"p","e","o","p","l","e">>,
  <<"r","i","g","h","t">>, <<"s","a","i","d">>, <<"s","e","e">>, <<"s","h","e">>, <<"s","o">>,
  <<"s","o","m","e">>, <<"t","h","a","n">>, <<"t","h","a","t">>, <<"t","h","e">>,
  <<"t","h","e","i","r">>, <<"t","h","e","m">>, <<"t","h","e","n">>, <<"t","h","e","r","e">>,
  <<"t","h","e","s","e">>, <<"t","h","e","y">>, <<"t","h","i","s">>, <<"t","i","m","e">>,
  <<"t","o">>, <<"t","w","o">>, <<"u","p">>, <<"u","s">>, <<"u","s","e">>, <<"v","e","r","y">>,
  <<"w","a","n","t">>, <<"w","a","s">>, <<"w","a","y">>, <<"w","e">>, <<"w","e","l","l">>,
  <<"w","e","n","t">>, <<"w","e","r","e">>, <<"w","h","a","t">>, <<"w","h","e","n">>,
  <<"w","h","e","r","e">>, <<"w","h","i","c","h">>, <<"w","h","o">>, <<"w","i","l","l">>,
  <<"w","i","t","h">>, <<"w","o","r","k">>, <<"w","o","u","l","d">>, <<"y","e","a","r">>,
  <<"y","e","a","r","s">>, <<"y","o","u">>, <<"y","o","u","r">> }

W_banana == <<"b","a","n","a","n","a">>
W_Canada == <<"C","a","n","a","d","a">>
W_BANANA == <<"B","A","N","A","N","A">>
W_canada == <<"c","a","n","a","d","a">>
W_personality == <<"p","e","r","s","o","n","a","l","i","t","y">>
W_data == <<"d","a","t","a">>
RECURSIVE Repeat(_, _, _)
Repeat(w, sep, n) == IF n = 1 THEN w ELSE w \o sep \o Repeat(w, sep, n - 1)
\* a sentence of 14 words of two syllables, with its full stop
LongSentence == Repeat(W_data, <<" ">>, MIN_YELLOW_WORDS_FOR_GRADE) \o <<".">>

FragmentPieces == {LongSentence, W_banana, <<" ">>, <<".">>, <<"1">>}
WordPieces == {W_banana, W_Canada, W_BANANA, W_personality, <<" ">>, <<".">>}

TextsOf(pieces) ==
  UNION {{Flatten(q) : q \in [1..k -> pieces]} : k \in 0..MaxPieces}

Paragraph(text) == <<"<paragraph>">> \o text \o <<CloseToken>>
Heading(text) == <<"<heading>">> \o text \o <<CloseToken>>
ListOf(text) ==
  <<"<bullet_list>", "<list_item>">> \o Paragraph(text) \o <<CloseToken, CloseToken>>
WithBreak(text) == <<"<paragraph>", "<hard_break>">> \o text \o <<CloseToken>>

DocsOf(text) ==
  {Paragraph(text), Heading(text), ListOf(text), WithBreak(text),
   Paragraph(text) \o Paragraph(text)}

BuildTargets == TargetGrades \cup {7}
BuildEasySets == {{}, {W_banana, W_canada}}

\* the settings, the same wherever the variant keeps them
SettingsAre(g, show, easy) ==
  /\ targetGrade = g /\ CURRENT_TARGET_GRADE = g /\ optTargetGrade = g
  /\ showHardWords = show /\ CURRENT_SHOW_HARD = show /\ optShowHard = show
  /\ easySet = easy /\ CURRENT_EASY_SET = easy /\ optEasySet = easy

InitFragments ==
  /\ \E t \in TextsOf(FragmentPieces) : doc \in DocsOf(t)
  /\ SettingsAre(6, TRUE, {})

InitWords ==
  /\ \E t \in TextsOf(WordPieces) : doc = Paragraph(t)
  /\ \E g \in BuildTargets, easy \in BuildEasySets : SettingsAre(g, TRUE, easy)

\* the end-to-end document: a sentence of three words, then a long sentence of words of
\* many syllables, in one paragraph
ShortSentence ==
  << "T", "h", "e", " ", "c", "a", "t", " ", "s", "a", "t", "." >>
LongHardSentence ==
  << "T", "h", "i", "s", " ", "e", "x", "t", "r", "a", "o", "r", "d", "i", "n", "a",
    "r", "i", "l", "y", " ", "p", "r", "o", "t", "r", "a", "c", "t", "e", "d", " ", "c",
    "i", "r", "c", "u", "m", "l", "o", "c", "u", "t", "o", "r", "y", " ", "s", "e", "n",
    "t", "e", "n", "c", "e", " ", "c", "o", "n", "t", "a", "i", "n", "s", " ", "c", "o",
    "n", "s", "i", "d", "e", "r", "a", "b", "l", "y", " ", "m", "o", "r", "e", " ", "t",
    "h", "a", "n", " ", "e", "i", "g", "h", "t", "e", "e", "n", " ", "i", "n", "d", "i",
    "v", "i", "d", "u", "a", "l", " ", "l", "e", "x", "i", "c", "a", "l", " ", "t", "o",
    "k", "e", "n", "s", " ", "a", "n", "d", " ", "s", "h", "o", "u", "l", "d", " ", "a",
    "b", "s", "o", "l", "u", "t", "e", "l", "y", " ", "b", "e", " ", "c", "l", "a", "s",
    "s", "i", "f", "i", "e", "d", " ", "a", "s", " ", "e", "x", "c", "e", "s", "s", "i",
    "v", "e", "l", "y", " ", "d", "i", "f", "f", "i", "c", "u", "l", "t", "." >>
W_extraordinarily == Slice(LongHardSentence, 5, 20)
W_circumlocutory == Slice(LongHardSentence, 32, 46)
\* the long sentences: the one above (21 words), and 18 to MaxSentenceWords times a
\* word of three syllables
LongHardSentences ==
  {LongHardSentence}
    \cup {Repeat(W_banana, <<" ">>, n) \o <<".">> :
            n \in MIN_RED_WORDS_FOR_GRADE..MaxSentenceWords}
EndToEndDoc(second) == Paragraph(ShortSentence \o <<" ">> \o second)

InitEndToEnd ==
  /\ \E s \in LongHardSentences : doc = EndToEndDoc(s)
  /\ SettingsAre(6, TRUE, MIN_EASY_WORDS)

InitBuild ==
  /\ variant \in {1, 2}
  /\ InitFragments \/ InitWords \/ InitEndToEnd
  /\ decos = <<>> /\ lastTr = "none"
  /\ NoClassifyCall /\ SchedulerAtRest

\* state.init of the plugin: buildDecorations(state.doc)
PluginInit ==
  /\ lastTr = "none"
  /\ decos' = buildDecorations(doc)
  /\ lastTr' = "init"
  /\ UNCHANGED << variant, classifyVars, doc, settingVars, schedulerVars >>

NextBuild == PluginInit

SpecBuild == InitBuild /\ [][NextBuild]_vars

(***************************************************************************)
(* SpecText: one call of each function of readabilityUtils.js, and of the  *)
(* syllable estimate the hard-word loop uses, on every text of at most     *)
(* MaxChars characters over two small alphabets: words, and sentences.     *)
(***************************************************************************)
WordLetters == {"a", "e", "y", "b", "l", "s", "d", "E"}
SentenceChars == {"a", "b", " ", "\n", ".", "?"}
StringsOver(chars) == UNION {[1..k -> chars] : k \in 0..MaxChars}

InitText ==
  /\ variant \in {1, 2}
  /\ fnText \in StringsOver(WordLetters) \cup StringsOver(SentenceChars)
  /\ fnOut = NoScores
  /\ cWords = 0 /\ cGrade = 0 /\ cTarget = 6 /\ cColor = "unset" /\ cTip = "unset"
  /\ EditorAtRest

Score ==
  /\ ~fnOut.scored
  /\ fnOut' = [scored |-> TRUE,
               sentences |-> countSentences(fnText),
               divisor |-> scoreInputs(fnText).wordCount,
               grade |-> calculateFleschKincaidGrade(fnText),
               ease |-> calculateFleschReadingEase(fnText),
               sentence |-> analyzeSentence(fnText),
               syllables |-> countSyllables(fnText),
               estimate |-> syllableEstimate(variant, fnText)]
  /\ UNCHANGED << variant, cWords, cGrade, cTarget, cColor, cTip, fnText, editorVars >>

NextText == Score

SpecText == InitText /\ [][NextText]_vars

(***************************************************************************)
(* Spec: the TiptapEditor component at run time.  The state after          *)
(* construction is the first render: the editor exists with an empty       *)
(* document, the plugin state was initialised on it, and the effects of    *)
(* the mount are still to run.                                             *)
(***************************************************************************)
W_the == <<"t","h","e">>
\* eight words of two syllables and six of one: grade 8.4
MixedSentence ==
  Repeat(W_data, <<" ">>, 8) \o <<" ">> \o Repeat(<<"a">>, <<" ">>, 6) \o <<".">>
EmptyDoc == Paragraph(<<>>)
EditorDocs ==
  {EmptyDoc,
   Paragraph(MixedSentence \o <<" ">> \o W_Canada \o <<" ">> \o W_banana \o <<".">>),
   Heading(W_banana) \o Paragraph(W_the \o <<" ">> \o W_personality),
   ListOf(W_banana)}

\* what the fetch of daleChallEasyWords.json can come to
FetchOutcomes == {"rejected", "not-ok", "not-an-array", "array"}
Payloads == {<<>>, <<W_Canada, W_banana>>}
\* the loaded words taken as they come, with no lowercasing
lowercased_asIs(list) == {list[i] : i \in 1..Len(list)}

\* new Set(list.map((w) => String(w).toLowerCase()))
lowercased(list) == {toLowerCase(list[i]) : i \in 1..Len(list)}

SettingDeps == {"targetGrade", "showHardWords", "easySet"}

\* editor.getText(): the text of the text blocks, joined by two line feeds
RECURSIVE textBlocksFrom(_, _)
textBlocksFrom(d, i) ==
  LET pos == FirstFrom(d, i, IsOpenToken) IN
  IF pos >= Len(d) THEN <<>>
  ELSE (IF d[pos + 1] \in {"<paragraph>", "<heading>"}
        THEN <<textContent(d, pos)>> ELSE <<>>) \o textBlocksFrom(d, pos + 1)
RECURSIVE joinBlocks(_)
joinBlocks(q) ==
  IF q = <<>> THEN <<>>
  ELSE IF Len(q) = 1 THEN q[1]
  ELSE q[1] \o <<"\n", "\n">> \o joinBlocks(Tail(q))
getText(d) == joinBlocks(textBlocksFrom(d, 0))

\* the body of debouncedStats
computeStats(fullText) ==
  [wordCount |-> countWords(fullText),
   sentenceCount |-> countSentences(fullText),
   grade |-> calculateFleschKincaidGrade(fullText),
   ease |-> calculateFleschReadingEase(fullText)]

\* buildDecorations and debouncedStats tabulated over the documents and settings
\* the editor can take, so that each is computed once
EditorEasySets == {{}, MIN_EASY_WORDS} \cup {lowercased(list) : list \in Payloads}
buildTable ==
  [x \in {1, 2} \X EditorDocs \X TargetGrades \X BOOLEAN \X EditorEasySets |->
     buildWith(x[1], x[2], x[3], x[4], x[5])] @@ << >>
statsTable == [d \in EditorDocs |-> computeStats(getText(d))] @@ << >>

\* buildDecorations(d) with the values the getters return now
rebuild(d) == buildTable[<<variant, d, getTargetGrade, getShowHardWords, getEasySet>>]

Init ==
  /\ variant \in {1, 2}
  /\ strictMode \in BOOLEAN
  /\ NoClassifyCall
  /\ doc = EmptyDoc /\ decos = <<>> /\ lastTr = "init"
  /\ targetGrade = 6
  /\ showHardWords \in BOOLEAN          \* localStorage "ssShowHard"
  /\ easySet = MIN_EASY_WORDS
  /\ CURRENT_TARGET_GRADE = 6 /\ CURRENT_SHOW_HARD = TRUE /\ CURRENT_EASY_SET = {}
  \* the getters handed to configure() close over the values of the first render
  /\ optTargetGrade = targetGrade /\ optShowHard = showHardWords /\ optEasySet = easySet
  /\ changed = {"mount"} /\ mounted = 0
  /\ fetches = 0 /\ fetchIssued = 0 /\ lastFetch = NoFetch
  /\ listeners = {} /\ nextHandler = 1
  /\ timers = {} /\ stats = NoStats

\* the effects of the mount have run, and their StrictMode replay if one is due
Ready == mounted >= 1 /\ "replay" \notin changed

\* apply with the previous set dropped by a transaction that asks for no rebuild
applyTr_dropOld(docChanged, recompute, rebuilt, old) ==
  IF docChanged \/ recompute THEN rebuilt ELSE <<>>
\* the plugin's apply: a transaction that changes the document or carries the
\* recompute meta gives buildDecorations(newState.doc), here rebuilt; any other
\* transaction keeps old
applyTr(docChanged, recompute, rebuilt, old) ==
  IF docChanged \/ recompute THEN rebuilt ELSE old

\* buildDecorations(doc) as the recompute effect's transaction runs it, after the
\* effects declared before it have run
buildAfterSync ==
  buildTable[<<variant, doc, getTargetGrade', getShowHardWords', getEasySet'>>]

\* the effects of a render in which the settings in deps changed, in the order of
\* the source: the sync effect of each changed setting (first variant only), then
\* the recompute effect, whose transaction carries the meta
settingEffects(deps) ==
  /\ CURRENT_TARGET_GRADE' =
       IF variant = 1 /\ "targetGrade" \in deps THEN targetGrade'
       ELSE CURRENT_TARGET_GRADE
  /\ CURRENT_SHOW_HARD' =
       IF variant = 1 /\ "showHardWords" \in deps THEN showHardWords'
       ELSE CURRENT_SHOW_HARD
  /\ CURRENT_EASY_SET' =
       IF variant = 1 /\ "easySet" \in deps THEN easySet' ELSE CURRENT_EASY_SET
  /\ decos' = applyTr(FALSE, TRUE, buildAfterSync, decos)
  /\ lastTr' = "recompute"

\* the effect that registers the update handler.  handler() is
\*   window.clearTimeout(handler.tid); handler.tid = window.setTimeout(...)
\* so a handler has at most one timeout pending, and timers holds the handlers that
\* have one.  The effect subscribes a new handler, with no tid yet, and calls it;
\* the cleanup of its previous run unsubscribes the old handler and leaves the old
\* handler's timeout alone.
registerHandler ==
  /\ listeners' = {nextHandler}
  /\ nextHandler' = nextHandler + 1
  /\ timers' = timers \cup {nextHandler}

\* the update event with the timeouts cleared and none set
updateHandlers_clearOnly(pending, subscribed) == pending \ subscribed
\* the update event: each subscribed handler clears its timeout and sets a new one
updateHandlers(pending, subscribed) == (pending \ subscribed) \cup subscribed

\* the fetch effect: one request per run
issueFetch ==
  /\ fetches' = fetches + 1
  /\ fetchIssued' = fetchIssued + 1

\* the effects of the mount
MountEffects ==
  /\ "mount" \in changed
  /\ UNCHANGED << variant, strictMode, classifyVars, doc, targetGrade, showHardWords,
                  easySet, optTargetGrade, optShowHard, optEasySet, lastFetch, stats >>
  /\ settingEffects(SettingDeps)
  /\ issueFetch
  /\ registerHandler
  /\ mounted' = mounted + 1
  /\ changed' = IF strictMode THEN {"replay"} ELSE {}

\* React.StrictMode (development build): every effect is cleaned up and run again
StrictReplay ==
  /\ "replay" \in changed
  /\ UNCHANGED << variant, strictMode, classifyVars, doc, targetGrade, showHardWords,
                  easySet, optTargetGrade, optShowHard, optEasySet, lastFetch, stats >>
  /\ settingEffects(SettingDeps)
  /\ issueFetch
  /\ registerHandler
  /\ mounted' = mounted + 1
  /\ changed' = {}

\* App's <select>: setTargetGrade, the render and its effects
SetTargetGrade ==
  /\ Ready
  /\ \E g \in TargetGrades \ {targetGrade} : targetGrade' = g
  /\ UNCHANGED << variant, strictMode, classifyVars, doc, showHardWords, easySet,
                  optTargetGrade, optShowHard, optEasySet, mounted,
                  fetches, fetchIssued, lastFetch, listeners, nextHandler,
                  timers, stats >>
  /\ settingEffects(changed \cup {"targetGrade"})
  /\ changed' = {}

\* the "Likely hard word" checkbox: setShowHardWords, the render and its effects
ToggleShowHardWords ==
  /\ Ready
  /\ showHardWords' = ~showHardWords
  /\ UNCHANGED << variant, strictMode, classifyVars, doc, targetGrade, easySet,
                  optTargetGrade, optShowHard, optEasySet, mounted,
                  fetches, fetchIssued, lastFetch, listeners, nextHandler,
                  timers, stats >>
  /\ settingEffects(changed \cup {"showHardWords"})
  /\ changed' = {}

\* the promise chain of the fetch effect settles; setEasySet schedules a render
FetchSettles ==
  /\ Ready /\ fetches > 0
  /\ \E o \in FetchOutcomes, list \in Payloads :
       /\ o # "array" => list = <<>>
       /\ lastFetch' = [outcome |-> o, before |-> easySet, payload |-> list]
       /\ IF o = "array" /\ Len(list) > 0
          THEN /\ easySet' = lowercased(list)
               /\ changed' = changed \cup {"easySet"}
          ELSE UNCHANGED << easySet, changed >>
  /\ fetches' = fetches - 1
  /\ UNCHANGED << variant, strictMode, classifyVars, doc, decos, lastTr,
                  targetGrade, showHardWords,
                  CURRENT_TARGET_GRADE, CURRENT_SHOW_HARD, CURRENT_EASY_SET,
                  optTargetGrade, optShowHard, optEasySet, mounted,
                  fetchIssued, listeners, nextHandler, timers, stats >>

\* the effects of the render that setEasySet scheduled
EasySetEffects ==
  /\ Ready /\ changed # {}
  /\ UNCHANGED << variant, strictMode, classifyVars, doc, targetGrade, showHardWords,
                  easySet, optTargetGrade, optShowHard, optEasySet, mounted,
                  fetches, fetchIssued, lastFetch, listeners, nextHandler,
                  timers, stats >>
  /\ settingEffects(changed)
  /\ changed' = {}

\* a transaction that changes the document: the plugin rebuilds in apply, then the
\* editor emits "update" and each subscribed handler restarts its timeout
Edit ==
  /\ Ready
  /\ \E d \in EditorDocs \ {doc} :
       /\ doc' = d
       /\ decos' = applyTr(TRUE, FALSE, rebuild(d), decos)
  /\ lastTr' = "docChanged"
  /\ timers' = updateHandlers(timers, listeners)
  /\ UNCHANGED << variant, strictMode, classifyVars, settingVars, changed, mounted,
                  fetches, fetchIssued, lastFetch, listeners, nextHandler, stats >>

\* a transaction that neither changes the document nor carries the meta
SelectionChange ==
  /\ Ready
  /\ lastTr # "selection"
  /\ decos' = applyTr(FALSE, FALSE, rebuild(doc), decos)
  /\ lastTr' = "selection"
  /\ UNCHANGED << variant, strictMode, classifyVars, doc, settingVars, schedulerVars >>

\* a pending timeout fires: debouncedStats
TimerFires ==
  /\ Ready
  /\ \E t \in timers : timers' = timers \ {t}
  /\ stats' = statsTable[doc]
  /\ UNCHANGED << variant, strictMode, classifyVars, doc, decos, lastTr, settingVars,
                  changed, mounted, fetches, fetchIssued, lastFetch, listeners,
                  nextHandler >>

Next ==
  \/ MountEffects
  \/ StrictReplay
  \/ SetTargetGrade
  \/ ToggleShowHardWords
  \/ FetchSettles
  \/ EasySetEffects
  \/ Edit
  \/ SelectionChange
  \/ TimerFires

Spec == Init /\ [][Next]_vars

\* The editor with its scheduling: React runs the effects of a committed render and
\* their StrictMode replay, and the browser fires a timeout that is pending and not
\* cleared.  Nothing obliges the user to act or the fetch to settle.
SpecLive ==
  Spec /\ WF_vars(MountEffects) /\ WF_vars(StrictReplay) /\ WF_vars(TimerFires)

(***************************************************************************)
(* Claims about the editor at run time (Spec).                             *)
(***************************************************************************)
\* no effect of a render is still to run
Quiescent == Ready /\ changed = {}

\* a from-scratch build of the document with the component's current settings
freshBuild == buildTable[<<variant, doc, targetGrade, showHardWords, easySet>>]

\* C2: once an edit or a setting change and its recompute transaction have been
\* processed, the annotation set equals a from-scratch buildDecorations of the current
\* document with the current target grade, toggle and easy-word set.
C2_RecomputeIsFreshBuild == Quiescent => decos = freshBuild

\* C9: at any moment at most one stats computation is pending, also across cleanup
\* and re-registration of the effect that subscribes the update handler.
C9_OnePendingStatsTimer == Cardinality(timers) <= 1

FetchFailed == lastFetch.outcome \in {"rejected", "not-ok", "not-an-array"}
LoadedWords == {toLowerCase(lastFetch.payload[i]) : i \in 1..Len(lastFetch.payload)}

C11_SeedBeforeLoad == lastFetch.outcome = "none" => getEasySet = MIN_EASY_WORDS

\* C19: a transaction that neither changes the document nor carries the recompute meta
\* leaves the annotation set, and the document, as they were.
C19_SelectionFrame ==
  [][SelectionChange => (decos' = decos /\ doc' = doc)]_vars

\* after such a transaction the annotations of a document that has some are in place
C19_Witness ==
  lastTr = "selection" /\ decos # <<>>

\* C20: while the displayed stats differ from those of the document a timeout is
\* pending, and if the document stops changing the displayed stats are from then on
\* those computed from its text.
C20_StatsEventually ==
  /\ [](Ready /\ stats # statsTable[doc] => timers # {})
  /\ \A d \in EditorDocs : <>[](doc = d) => <>[](stats = statsTable[d])

\* the stats of an edited document, displayed after its timeout fired
C20_Witness ==
  /\ lastTr = "docChanged" /\ doc # EmptyDoc
  /\ timers = {} /\ stats = statsTable[doc] /\ stats # NoStats

(***************************************************************************)
(* Claims about the classifier, checked under SpecClassify.                *)
(***************************************************************************)
Classified == cColor # "unset"
cDelta == cGrade - 10 * cTarget

\* the tag each rule of the specification asks for, taken alone
LengthRuleTag ==
  IF cWords >= HEMI_VERY_HARD_WORDS THEN "red"
  ELSE IF cWords >= HEMI_HARD_WORDS THEN "yellow" ELSE "none"
DeltaRuleTag ==
  IF cDelta > 10 * DELTA_VERY_HARD /\ cWords >= MIN_RED_WORDS_FOR_GRADE THEN "red"
  ELSE IF cDelta > 10 * DELTA_HARD /\ cWords >= MIN_YELLOW_WORDS_FOR_GRADE THEN "yellow"
  ELSE "none"
HigherTag(a, b) == IF "red" \in {a, b} THEN "red" ELSE "yellow"
CompoundTips == {"Very hard, long and above target, split and simplify.",
                 "A bit long and above your target, consider a small rewrite."}

\* C3: in the second variant, whenever the length rule and the grade-delta rule both
\* fire, classify returns the higher of the two tags and the tooltip is the compound
\* message naming both triggers.
C3_ClassifierPriority ==
  (Classified /\ variant = 2 /\ LengthRuleTag # "none" /\ DeltaRuleTag # "none")
    => /\ cColor = HigherTag(LengthRuleTag, DeltaRuleTag)
       /\ cTip \in CompoundTips

\* C4: a sentence of fewer than 8 words gets no tag, whatever its grade and the target
\* grade, in both variants.
C4_ShortSentenceGuard ==
  (Classified /\ cWords < 8) => cColor = "none"

C4_Witness ==
  Classified /\ variant = 2 /\ cWords = 7 /\ cGrade = 500 /\ cColor = "none"

DeltaRuleHolds(over(_, _)) ==
  LET redCase == over(cDelta, 10 * DELTA_VERY_HARD) /\ cWords >= MIN_RED_WORDS_FOR_GRADE
      yellowCase == over(cDelta, 10 * DELTA_HARD) /\ cWords >= MIN_YELLOW_WORDS_FOR_GRADE
  IN /\ cColor = "red" <=> redCase
     /\ cColor = "yellow" <=> (~redCase /\ yellowCase)
     /\ (cWords < MIN_YELLOW_WORDS_FOR_GRADE => cColor \notin {"red", "yellow"})
Exceeds(d, m) == d > m
Reaches(d, m) == d >= m

\* the sentences neither the short-sentence guard nor the length rule decides
DeltaRuleDecides ==
  Classified /\ cWords >= MIN_SAMPLE_WORDS /\ (variant = 2 => cWords < HEMI_HARD_WORDS)

\* C6 as claimed: the grade-delta rule compares strictly in every variant.
C6_DeltaRuleStrictEveryVariant == DeltaRuleDecides => DeltaRuleHolds(Exceeds)

\* C6 as amended: red exactly when delta is over the margin 3 with 18 words or more,
\* otherwise yellow exactly when delta is over the margin 1 with 14 words or more,
\* never red or yellow below 14 words; "over" is strict (>) in the second variant and
\* inclusive (>=) in the first.
C6_DeltaRule ==
  DeltaRuleDecides =>
    IF variant = 2 THEN DeltaRuleHolds(Exceeds) ELSE DeltaRuleHolds(Reaches)

C6_Witness ==
  Classified /\ variant = 1 /\ cDelta = 10 * DELTA_VERY_HARD
    /\ cWords = MIN_RED_WORDS_FOR_GRADE /\ cColor = "red"


\* what each tooltip says of the sentence
cFlags == ruleFlags(cWords, cGrade, cTarget)
TipIsTrue ==
  CASE cTip = "Very hard, long and above target, split and simplify."
         -> cWords >= HEMI_VERY_HARD_WORDS
              /\ cDelta > 10 * DELTA_VERY_HARD /\ cWords >= MIN_RED_WORDS_FOR_GRADE
    [] cTip = "Very hard, 25 or more words, split this sentence."
         -> cWords >= HEMI_VERY_HARD_WORDS
    [] cTip = "Very hard, about 3 grades over target, split and simplify."
         -> cDelta > 10 * DELTA_VERY_HARD /\ cWords >= MIN_RED_WORDS_FOR_GRADE
    [] cTip = "A bit long and above your target, consider a small rewrite."
         -> cWords >= HEMI_HARD_WORDS
              /\ cDelta > 10 * DELTA_HARD /\ cWords >= MIN_YELLOW_WORDS_FOR_GRADE
    [] cTip = "A bit long, 20 or more words, consider a split."
         -> cWords >= HEMI_HARD_WORDS
    [] cTip = "Slightly above your target, try simpler words or a split."
         -> cDelta > 10 * DELTA_HARD /\ cWords >= MIN_YELLOW_WORDS_FOR_GRADE
    [] cTip = "Much harder than your target-simplify or split."
         -> cDelta >= 10 * DELTA_VERY_HARD /\ cWords >= MIN_RED_WORDS_FOR_GRADE
    [] cTip = "A bit harder than your target-try simpler words or a split."
         -> cDelta >= 10 * DELTA_HARD /\ cWords >= MIN_YELLOW_WORDS_FOR_GRADE
    [] cTip \in {"Long sentence-consider a split.", "Long sentence, consider a split."}
         -> cWords >= LONG_SENTENCE_WORDS
    [] OTHER -> FALSE

\* C18: a tagged sentence has a tooltip that is not empty and that names a rule that
\* fired; in the second variant a red tag comes with byLengthHard or byDeltaHard and a
\* yellow tag with byLengthYellow or byDeltaYellow.
C18_TooltipConsistency ==
  (Classified /\ cColor # "none") =>
    /\ cTip # ""
    /\ TipIsTrue
    /\ variant = 2 =>
         /\ (cColor = "red" => (cFlags.byLengthHard \/ cFlags.byDeltaHard))
         /\ (cColor = "yellow" => (cFlags.byLengthYellow \/ cFlags.byDeltaYellow))

\* a sentence the second variant tags yellow by its length alone, at the threshold
C18_Witness ==
  /\ Classified /\ variant = 2 /\ cColor = "yellow"
  /\ cWords = HEMI_HARD_WORDS /\ cFlags.byLengthYellow /\ ~cFlags.byDeltaYellow
  /\ cTip = "A bit long, 20 or more words, consider a split."

(***************************************************************************)
(* Claims about the readabilityUtils functions, checked under SpecText.    *)
(***************************************************************************)
\* C13: for every text, the empty and the white-space-only ones included,
\* countSentences is at least 1, the word count that calculateFleschKincaidGrade,
\* calculateFleschReadingEase and analyzeSentence divide by is at least 1, and each
\* returns a finite score.
C13_NoDivisionByZero ==
  fnOut.scored =>
    /\ fnOut.sentences >= 1
    /\ fnOut.divisor >= 1
    /\ fnOut.sentence.wordCount >= 1
    /\ fnOut.sentence.finite

IsWordOfLetters(t) == t # <<>> /\ \A i \in 1..Len(t) : t[i] \in UpperSet \cup LowerSet
\* the maximal runs of vowel-like characters of w: the positions where a run starts
VowelRuns(w) ==
  Cardinality({i \in 1..Len(w) :
                 w[i] \in VowelLike /\ (i = 1 \/ w[i - 1] \notin VowelLike)})
ClaimedSyllables(word) ==
  LET w == toLowerCase(word)
      runs == VowelRuns(stripLeadingY(stripSuffix(w)))
  IN IF Len(w) <= 3 THEN 1 ELSE IF runs = 0 THEN 1 ELSE runs

\* C15: for every word of letters, countSyllables is 1 for a word of at most three
\* characters, and otherwise the number of maximal runs of vowel-like characters left
\* after the suffix and the leading y are stripped, or 1 when there is none; a run of
\* three or more vowels counts once.
C15_SyllableEstimate ==
  (fnOut.scored /\ IsWordOfLetters(fnText)) => fnOut.syllables = ClaimedSyllables(fnText)

(***************************************************************************)
(* Claims about buildDecorations, checked under SpecBuild.                 *)
(***************************************************************************)
Built == lastTr = "init"
DecoIndex == 1..Len(decos)

\* C1: slicing the document at [from, to) of any annotation gives back the string that
\* was analyzed: the trimmed fragment of a sentence annotation, the token of a word
\* annotation.
C1_RoundTrip ==
  \A k \in DecoIndex : textBetween(doc, decos[k].from, decos[k].to) = decos[k].src

\* every token of every fragment of every block of the document, in document order,
\* with its index in its fragment
TokensOfText(text) ==
  LET parts == splitIntoSentences(text)
      ofPart(j) ==
        LET toks == wordTokens(trim(parts[j]))
        IN [k \in 1..Len(toks) |-> [src |-> toks[k].text, tokenIndex |-> k - 1]]
  IN Flatten([j \in 1..Len(parts) |-> ofPart(j)])
RECURSIVE TokensFrom(_)
TokensFrom(i) ==
  LET pos == FirstFrom(doc, i, IsOpenToken) IN
  IF pos >= Len(doc) THEN <<>>
  ELSE (IF doc[pos + 1] \in BlockTypes THEN TokensOfText(textContent(doc, pos))
        ELSE <<>>) \o TokensFrom(pos + 1)
AllTokens == TokensFrom(0)

IsWordDeco(d) == d.kind = "word"
\* the word annotations of the build, as token and token index
WordAnnotations ==
  LET w == SelectSeq(decos, IsWordDeco)
  IN [k \in 1..Len(w) |-> [src |-> w[k].src, tokenIndex |-> w[k].tokenIndex]]

AllUpper(t) == Len(t) > 1 /\ \A i \in 1..Len(t) : t[i] \notin LowerSet
Capitalized(t) == Len(t) >= 2 /\ t[1] \in UpperSet /\ t[2] \in LowerSet
CapitalOrUpper(e) == AllUpper(e.src) \/ Capitalized(e.src)
LongAndHard(t) ==
  /\ syllableEstimate(variant, t) >= hardSyllables(getTargetGrade)
  /\ toLowerCase(t) \notin getEasySet
SentenceInitialHard(e) ==
  Capitalized(e.src) /\ e.tokenIndex = 0 /\ LongAndHard(e.src)

\* C7: among the tokens that are fully upper-case (two characters or more) or
\* capitalized-then-lowercase, the flagged ones are exactly the capitalized tokens at
\* token index 0 of their fragment that meet the syllable and easy-word criteria; the
\* index counts every token of the fragment.
C7_WordFilters ==
  (Built /\ getShowHardWords) =>
    SelectSeq(WordAnnotations, CapitalOrUpper) = SelectSeq(AllTokens, SentenceInitialHard)

C7_Witness ==
  /\ Built
  /\ \E k \in DecoIndex : decos[k].tokenIndex = 0 /\ Capitalized(decos[k].src)
  /\ \E j \in 1..Len(AllTokens) :
       /\ AllTokens[j].tokenIndex > 0 /\ CapitalOrUpper(AllTokens[j])
       /\ LongAndHard(AllTokens[j].src)
       /\ Len(WordAnnotations) = 1

ClaimedThreshold(g) == CASE g = 6 -> 3 [] g = 8 -> 4 [] g = 10 -> 5 [] OTHER -> 3
MeetsCriterion(e) ==
  /\ ~isFiltered(e.src, e.tokenIndex)
  /\ syllableEstimate(variant, e.src) >= ClaimedThreshold(getTargetGrade)
  /\ toLowerCase(e.src) \notin getEasySet

\* C8: with word flagging on, the flagged tokens are exactly the unfiltered tokens
\* whose syllable estimate reaches the threshold of the target grade (6: 3, 8: 4,
\* 10: 5, others: 3) and whose lower-case form is not in the easy-word set.
C8_FlagCriterion ==
  (Built /\ getShowHardWords) => WordAnnotations = SelectSeq(AllTokens, MeetsCriterion)

C8_Witness ==
  /\ Built /\ getShowHardWords /\ getTargetGrade = 8
  /\ \E k \in DecoIndex : decos[k].kind = "word"
  /\ \E j \in 1..Len(AllTokens) :
       /\ MeetsCriterion(AllTokens[j]) = FALSE
       /\ ~isFiltered(AllTokens[j].src, AllTokens[j].tokenIndex)
       /\ syllableEstimate(variant, AllTokens[j].src) = DEFAULT_HARD_SYLLABLES
  /\ \E j \in 1..Len(AllTokens) :
       /\ toLowerCase(AllTokens[j].src) \in getEasySet

NotOpenToken(t) == ~IsOpenToken(t)
\* the start of the text of the block at pos, in document coordinates: the position
\* after the opening of the block and of the blocks nested at its start
TextStart(pos) == FirstFrom(doc, pos, NotOpenToken)

IsSentenceDeco(d) == d.kind = "sentence"
SentenceAnnotations == SelectSeq(decos, IsSentenceDeco)
\* long words of a long sentence that the seed easy-word set does not hold
LongWordsOf(s) ==
  IF s = LongHardSentence THEN {W_extraordinarily, W_circumlocutory} ELSE {W_banana}
SecondFrom == 1 + Len(ShortSentence) + 1

\* C14: for a paragraph of a 3-word sentence followed by a sentence of at least 18 words
\* of high syllable density, built with target grade 6 and word flagging on, there is
\* no sentence annotation for the first sentence, a red sentence annotation spanning
\* the second, and word annotations for its long words outside the easy-word set.
C14_EndToEnd ==
  \A s \in LongHardSentences :
    (Built /\ doc = EndToEndDoc(s)) =>
      /\ \A k \in DecoIndex :
           decos[k].kind = "sentence" => decos[k].src # ShortSentence
      /\ \E k \in DecoIndex :
           /\ decos[k].kind = "sentence" /\ decos[k].color = "red"
           /\ decos[k].from = SecondFrom /\ decos[k].to = SecondFrom + Len(s)
           /\ textBetween(doc, decos[k].from, decos[k].to) = s
      /\ \A w \in LongWordsOf(s) :
           \E k \in DecoIndex :
             /\ decos[k].kind = "word" /\ decos[k].src = w
             /\ textBetween(doc, decos[k].from, decos[k].to) = w

\* the blocks the build analyzes: the positions of the paragraphs, list items and
\* headings that have text
BlockPositions ==
  {pos \in 0..(Len(doc) - 1) : doc[pos + 1] \in BlockTypes /\ textContent(doc, pos) # <<>>}
\* searchFrom at the start of iteration k of the loop over `parts` (k = Len(parts) + 1:
\* after the last iteration)
RECURSIVE searchFromAt(_, _, _)
searchFromAt(text, parts, k) ==
  IF k = 1 THEN 0
  ELSE loopStep(text, parts[k - 1], searchFromAt(text, parts, k - 1)).next
\* the fragment of iteration k is skipped: empty after trimming, or not found
IsSkipped(text, parts, k) ==
  \/ trim(parts[k]) = <<>>
  \/ indexOf(text, trim(parts[k]), searchFromAt(text, parts, k)) = -1
\* what the fragments that are not skipped emit, fragment by fragment
EmittedBy(pos) ==
  LET text == textContent(doc, pos)
      parts == splitIntoSentences(text)
      one(k) ==
        LET s == trim(parts[k])
            from == pos + 1 + indexOf(text, s, searchFromAt(text, parts, k))
        IN IF IsSkipped(text, parts, k) THEN <<>>
           ELSE sentenceDecos(variant, s, from, getTargetGrade)
                \o (IF getShowHardWords
                    THEN wordDecos(variant, s, from, getTargetGrade, getEasySet)
                    ELSE <<>>)
  IN Flatten([k \in 1..Len(parts) |-> one(k)])
RECURSIVE EmittedFrom(_)
EmittedFrom(i) ==
  LET pos == FirstFrom(doc, i, IsOpenToken) IN
  IF pos >= Len(doc) THEN <<>>
  ELSE (IF pos \in BlockPositions THEN EmittedBy(pos) ELSE <<>>) \o EmittedFrom(pos + 1)

\* C16: the build returns an annotation set for every document; within a block
\* searchFrom never decreases from one fragment to the next; a fragment that is empty
\* after trimming or is not found advances searchFrom by the length of the raw
\* fragment and emits nothing; and the annotations are exactly those of the fragments
\* that are not skipped, of every block, in document order.
C16_Totality ==
  Built =>
    /\ \A pos \in BlockPositions :
         LET text == textContent(doc, pos)
             parts == splitIntoSentences(text)
         IN \A k \in 1..Len(parts) :
              /\ searchFromAt(text, parts, k) <= searchFromAt(text, parts, k + 1)
              /\ IsSkipped(text, parts, k) =>
                   searchFromAt(text, parts, k + 1)
                     = searchFromAt(text, parts, k) + Len(parts[k])
    /\ decos = EmittedFrom(0)

\* a block whose last fragment is white space and is skipped after an annotated
\* sentence, followed by a second block that is annotated in its turn
C16_Witness ==
  /\ Built
  /\ \E pos \in BlockPositions :
       LET text == textContent(doc, pos)
           parts == splitIntoSentences(text)
       IN /\ Len(parts) >= 2
          /\ trim(parts[Len(parts)]) = <<>>
          /\ searchFromAt(text, parts, Len(parts) + 1) = Len(text)
          /\ \E k \in DecoIndex : decos[k].kind = "sentence" /\ decos[k].from = pos + 1
          /\ \E k \in DecoIndex : decos[k].kind = "sentence" /\ decos[k].from > pos + Len(text)

\* C17: every fragment that is not empty after trimming is found by the forward search
\* at or after searchFrom: indexOf never returns -1.
C17_SearchNeverFails ==
  Built =>
    \A pos \in BlockPositions :
      LET text == textContent(doc, pos)
          parts == splitIntoSentences(text)
      IN \A k \in 1..Len(parts) :
           trim(parts[k]) # <<>> =>
             indexOf(text, trim(parts[k]), searchFromAt(text, parts, k))
               >= searchFromAt(text, parts, k)

\* a block in which the same sentence occurs twice, the second found after the first
C17_Witness ==
  /\ Built
  /\ \E pos \in BlockPositions :
       LET text == textContent(doc, pos)
           parts == splitIntoSentences(text)
       IN \E j, k \in 1..Len(parts) :
            /\ j < k /\ trim(parts[j]) = trim(parts[k]) /\ trim(parts[k]) # <<>>
            /\ indexOf(text, trim(parts[k]), searchFromAt(text, parts, k))
                 > indexOf(text, trim(parts[j]), searchFromAt(text, parts, j))
====
